---- MODULE Spec2Model ----
(***************************************************************************)
(* A model of static/git-arr.js: the clock, the age formatter, the age     *)
(* renderer, the visibility toggle and the table sorter with its sort      *)
(* indicators, as operations on one page.                                  *)
(*                                                                         *)
(* Text is a sequence of UTF-16 code units.  A JavaScript number is a      *)
(* record [nan, int, frac]: NaN, or the real number int + frac/1000 with   *)
(* frac in 0..999 (the clock has millisecond resolution and the page's     *)
(* timestamps are whole seconds).                                          *)
(***************************************************************************)
EXTENDS Integers, Sequences, FiniteSets, TLC

(* ------------------------------ bounds -------------------------------- *)
MaxRows == 2
Epoch == 70000000

(* ------------------------------ numbers ------------------------------- *)
NaN == [nan |-> TRUE, int |-> 0, frac |-> 0]
Real(i, f) == [nan |-> FALSE, int |-> i, frac |-> f]
Whole(i) == Real(i, 0)

\* a < b of JavaScript: false when either side is NaN.
Lt(a, b) ==
    /\ ~a.nan
    /\ ~b.nan
    /\ \/ a.int < b.int
       \/ a.int = b.int /\ a.frac < b.frac

\* a > b of JavaScript.
Gt(a, b) == Lt(b, a)

\* a - b of JavaScript.
Sub(a, b) ==
    IF a.nan \/ b.nan THEN NaN
    ELSE IF a.frac >= b.frac THEN Real(a.int - b.int, a.frac - b.frac)
    ELSE Real(a.int - b.int - 1, a.frac - b.frac + 1000)

\* Math.floor(a).
Floor(a) == IF a.nan THEN NaN ELSE Whole(a.int)

\* Math.floor(a / k) for a whole number a and a positive whole k.
FloorDiv(a, k) == IF a.nan THEN NaN ELSE Whole(a.int \div k)

(* -------------------------------- text -------------------------------- *)
IsSpace(ch) == ch \in {9, 10, 11, 12, 13, 32}
IsDigit(ch) == ch \in 48..57

RECURSIVE TrimLeft(_)
TrimLeft(s) ==
    IF s # <<>> /\ IsSpace(Head(s)) THEN TrimLeft(Tail(s)) ELSE s

RECURSIVE TrimRight(_)
TrimRight(s) ==
    IF s # <<>> /\ IsSpace(s[Len(s)])
    THEN TrimRight(SubSeq(s, 1, Len(s) - 1))
    ELSE s

\* String.prototype.trim.
Trim(s) == TrimRight(TrimLeft(s))

\* String.prototype.toLowerCase on the Latin letters.
ToLowerCase(s) ==
    [i \in 1..Len(s) |-> IF s[i] \in 65..90 THEN s[i] + 32 ELSE s[i]]

\* The value of a string of decimal digits, read from the left: acc is the
\* value of the digits already read.
RECURSIVE DigitsValueFrom(_, _)
DigitsValueFrom(s, acc) ==
    IF s = <<>> THEN acc
    ELSE DigitsValueFrom(Tail(s), 10 * acc + (Head(s) - 48))

DigitsValue(s) == DigitsValueFrom(s, 0)

\* The longest prefix of s made of decimal digits.
RECURSIVE DigitPrefix(_)
DigitPrefix(s) ==
    IF s # <<>> /\ IsDigit(Head(s))
    THEN <<Head(s)>> \o DigitPrefix(Tail(s))
    ELSE <<>>

\* The decimal digits of a natural number.
RECURSIVE NatToString(_)
NatToString(n) ==
    IF n < 10 THEN <<48 + n>>
    ELSE NatToString(n \div 10) \o <<48 + (n % 10)>>

\* Number-to-string conversion of `interval + " ... ago"`, for whole numbers.
NumberToString(n) ==
    IF n < 0 THEN <<45>> \o NatToString(0 - n) ELSE NatToString(n)

\* The string-to-number conversion that <, > and - apply to a string operand:
\* the whole trimmed string must be a numeral, the empty string is 0, anything
\* else is NaN.
ToNumber(s) ==
    LET t == Trim(s)
        signed == t # <<>> /\ Head(t) \in {43, 45}
        body == IF signed THEN Tail(t) ELSE t
    IN  IF t = <<>> THEN Whole(0)
        ELSE IF body # <<>> /\ DigitPrefix(body) = body
        THEN Whole(IF Head(t) = 45 THEN 0 - DigitsValue(body) ELSE DigitsValue(body))
        ELSE NaN

\* parseFloat: leading white space is skipped and the longest numeral prefix is
\* read; NaN when there is none.
ParseFloat(s) ==
    LET t == TrimLeft(s)
        signed == t # <<>> /\ Head(t) \in {43, 45}
        digits == DigitPrefix(IF signed THEN Tail(t) ELSE t)
    IN  IF digits = <<>> THEN NaN
        ELSE Whole(IF Head(t) = 45 THEN 0 - DigitsValue(digits) ELSE DigitsValue(digits))

\* s < t of JavaScript on two strings: code unit by code unit, a proper prefix
\* first.
RECURSIVE StrLt(_, _)
StrLt(s, t) ==
    IF t = <<>> THEN FALSE
    ELSE IF s = <<>> THEN TRUE
    ELSE IF Head(s) # Head(t) THEN Head(s) < Head(t)
    ELSE StrLt(Tail(s), Tail(t))

(* --------------------------- string literals -------------------------- *)
StrNever == <<110, 101, 118, 101, 114>>
StrYearsAgo == <<32, 121, 101, 97, 114, 115, 32, 97, 103, 111>>
StrMonthsAgo == <<32, 109, 111, 110, 116, 104, 115, 32, 97, 103, 111>>
StrDaysAgo == <<32, 100, 97, 121, 115, 32, 97, 103, 111>>
StrHoursAgo == <<32, 104, 111, 117, 114, 115, 32, 97, 103, 111>>
StrMinutesAgo == <<32, 109, 105, 110, 117, 116, 101, 115, 32, 97, 103, 111>>
StrSecondsAgo == <<32, 115, 101, 99, 111, 110, 100, 115, 32, 97, 103, 111>>
StrAboutNow == <<97, 98, 111, 117, 116, 32, 110, 111, 119>>
StrAscending == <<32, 9650>>
StrDescending == <<32, 9660>>

(* ---------------------------- age formatter --------------------------- *)
\* A variant of how_long_ago whose tiers take one whole unit or more, not more
\* than one.
how_long_ago_from_one(timestamp, nowv) ==
    IF Lt(timestamp, Whole(0)) THEN StrNever
    ELSE
    LET seconds == Floor(Sub(nowv, timestamp))
        years == FloorDiv(seconds, 365 * 24 * 60 * 60)
        months == FloorDiv(seconds, 30 * 24 * 60 * 60)
        days == FloorDiv(seconds, 24 * 60 * 60)
        hours == FloorDiv(seconds, 60 * 60)
        minutes == FloorDiv(seconds, 60)
    IN  IF Gt(years, Whole(0)) THEN NumberToString(years.int) \o StrYearsAgo
        ELSE IF Gt(months, Whole(0)) THEN NumberToString(months.int) \o StrMonthsAgo
        ELSE IF Gt(days, Whole(0)) THEN NumberToString(days.int) \o StrDaysAgo
        ELSE IF Gt(hours, Whole(0)) THEN NumberToString(hours.int) \o StrHoursAgo
        ELSE IF Gt(minutes, Whole(0)) THEN NumberToString(minutes.int) \o StrMinutesAgo
        ELSE IF Gt(seconds, Whole(1)) THEN NumberToString(seconds.int) \o StrSecondsAgo
        ELSE StrAboutNow

\* how_long_ago(timestamp) at clock value nowv.  timestamp is the operand after
\* the conversion that <, - apply to it (a number, or NaN).
how_long_ago(timestamp, nowv) ==
    IF Lt(timestamp, Whole(0)) THEN StrNever
    ELSE
    LET seconds == Floor(Sub(nowv, timestamp))
        years == FloorDiv(seconds, 365 * 24 * 60 * 60)
        months == FloorDiv(seconds, 30 * 24 * 60 * 60)
        days == FloorDiv(seconds, 24 * 60 * 60)
        hours == FloorDiv(seconds, 60 * 60)
        minutes == FloorDiv(seconds, 60)
    IN  IF Gt(years, Whole(1)) THEN NumberToString(years.int) \o StrYearsAgo
        ELSE IF Gt(months, Whole(1)) THEN NumberToString(months.int) \o StrMonthsAgo
        ELSE IF Gt(days, Whole(1)) THEN NumberToString(days.int) \o StrDaysAgo
        ELSE IF Gt(hours, Whole(1)) THEN NumberToString(hours.int) \o StrHoursAgo
        ELSE IF Gt(minutes, Whole(1)) THEN NumberToString(minutes.int) \o StrMinutesAgo
        ELSE IF Gt(seconds, Whole(1)) THEN NumberToString(seconds.int) \o StrSecondsAgo
        ELSE StrAboutNow

(* ------------------------------ the page ------------------------------ *)
\* The repos table has a text column and a column whose cells hold a
\* span.age element carrying a data-timestamp attribute.
StringCol == 0
AgeCol == 1
Columns == {StringCol, AgeCol}
\* Column arguments tried: the columns and -1, which is no column.
ColumnArgs == {-1} \cup Columns
DataTypes == {"number", "string"}
RowIds == 1..MaxRows

VARIABLES
    cellText,               \* row -> text of the row's cell in the text column
    age,                    \* row -> the span.age element of the row's age cell
    tbody,                  \* the rows of the table body, in document order
    currentSortColumn,
    currentSortDirection,
    indicators,             \* column -> text of its .sort-indicator element
    last,                   \* the operation that ran last, its arguments and result
    run                     \* snapshots taken after each of the latest consecutive
                            \* identical sortTable or toggle calls (at most three)

vars == <<cellText, age, tbody, currentSortColumn, currentSortDirection,
          indicators, last, run>>

Range(s) == {s[i] : i \in DOMAIN s}
Reverse(s) == [i \in 1..Len(s) |-> s[Len(s) + 1 - i]]
LastThree(s) == IF Len(s) > 3 THEN SubSeq(s, Len(s) - 2, Len(s)) ELSE s

\* now(): new Date().getTime() / 1000, the wall clock read at the call.  The
\* readings tried lie around the epoch, on and between whole seconds.
ClockReadings == {Real(Epoch, 0), Real(Epoch, 500), Real(Epoch + 1, 0)}
now(reading) == reading

\* The elements toggle can be handed the id of: the page gives an id to the age
\* element of its first row.
ElementIds == DOMAIN age \cap {1}

(* ---------------------------- age renderer ---------------------------- *)
\* A variant of RenderAge whose band limits are inclusive.
RenderAgeInclusive(e, nowv) ==
    LET timestamp == ToNumber(e.innerHTML)
        ageSecs == Sub(nowv, timestamp)
        band == IF ~Gt(ageSecs, Whole(2 * 60 * 60)) THEN <<"age-band0">>
                ELSE IF ~Gt(ageSecs, Whole(3 * 24 * 60 * 60)) THEN <<"age-band1">>
                ELSE IF ~Gt(ageSecs, Whole(30 * 24 * 60 * 60)) THEN <<"age-band2">>
                ELSE <<>>
    IN  [e EXCEPT
            !.innerHTML = how_long_ago(timestamp, nowv),
            !.display = "inline",
            !.className = IF Gt(timestamp, Whole(0)) THEN @ \o band ELSE @]

\* A variant of RenderAge that takes the band from the data-timestamp
\* attribute, not from the text it replaces.
RenderAgeFromAttribute(e, nowv) ==
    LET timestamp == ToNumber(e.innerHTML)
        attribute == ParseFloat(e.dataTimestamp)
        ageSecs == Sub(nowv, attribute)
        band == IF Lt(ageSecs, Whole(2 * 60 * 60)) THEN <<"age-band0">>
                ELSE IF Lt(ageSecs, Whole(3 * 24 * 60 * 60)) THEN <<"age-band1">>
                ELSE IF Lt(ageSecs, Whole(30 * 24 * 60 * 60)) THEN <<"age-band2">>
                ELSE <<>>
    IN  [e EXCEPT
            !.innerHTML = how_long_ago(timestamp, nowv),
            !.display = "inline",
            !.className = IF Gt(attribute, Whole(0)) THEN @ \o band ELSE @]

\* The body of the loop of replace_timestamps for one element e.
RenderAge(e, nowv) ==
    LET timestamp == ToNumber(e.innerHTML)
        ageSecs == Sub(nowv, timestamp)
        band == IF Lt(ageSecs, Whole(2 * 60 * 60)) THEN <<"age-band0">>
                ELSE IF Lt(ageSecs, Whole(3 * 24 * 60 * 60)) THEN <<"age-band1">>
                ELSE IF Lt(ageSecs, Whole(30 * 24 * 60 * 60)) THEN <<"age-band2">>
                ELSE <<>>
    IN  [e EXCEPT
            !.innerHTML = how_long_ago(timestamp, nowv),
            !.display = "inline",
            !.className = IF Gt(timestamp, Whole(0)) THEN @ \o band ELSE @]

\* replace_timestamps(): every element of class "age" is rendered.  The clock
\* readings of one call are taken at the same instant, nowv.
replace_timestamps(nowv) ==
    /\ age' = [r \in DOMAIN age |->
                  IF "age" \in Range(age[r].className)
                  THEN RenderAge(age[r], now(nowv)) ELSE age[r]]
    /\ last' = [op |-> "replace_timestamps", clock |-> nowv]
    /\ run' = <<>>
    /\ UNCHANGED <<cellText, tbody, currentSortColumn,
                   currentSortDirection, indicators>>

(* -------------------------- visibility toggle ------------------------- *)
\* A variant of ToggleDisplay that hides whatever is not hidden.
ToggleDisplayHidesOthers(d) ==
    IF d = "none" THEN "" ELSE "none"

\* The display toggle leaves an element with, from the display d.
ToggleDisplay(d) ==
    IF d = "" THEN "none" ELSE IF d = "none" THEN "" ELSE d

\* toggle(id), for the id of the age element of row r.
toggle(r) ==
    /\ r \in ElementIds
    /\ age' = [age EXCEPT ![r].display = ToggleDisplay(@)]
    /\ run' = LastThree(IF last.op = "toggle" /\ last.id = r
                        THEN Append(run, age'[r].display)
                        ELSE <<age[r].display, age'[r].display>>)
    /\ last' = [op |-> "toggle", id |-> r]
    /\ UNCHANGED <<cellText, tbody, currentSortColumn,
                   currentSortDirection, indicators>>

(* ----------------------------- table sorter --------------------------- *)
\* A variant of NextSortState that keeps the direction when the column changes.
NextSortStateKeepsDirection(col, dir, columnIndex) ==
    IF col = columnIndex
    THEN [column |-> col, direction |-> IF dir = "asc" THEN "desc" ELSE "asc"]
    ELSE [column |-> columnIndex, direction |-> dir]

\* A variant of NextSortState that never flips the direction.
NextSortStateNeverFlips(col, dir, columnIndex) ==
    IF col = columnIndex
    THEN [column |-> col, direction |-> dir]
    ELSE [column |-> columnIndex, direction |-> "asc"]

\* The direction policy of sortTable: the sort state after a call on column
\* columnIndex, from the state (col, dir).
NextSortState(col, dir, columnIndex) ==
    IF col = columnIndex
    THEN [column |-> col, direction |-> IF dir = "asc" THEN "desc" ELSE "asc"]
    ELSE [column |-> columnIndex, direction |-> "asc"]

\* cell.textContent of a row's cell in a column.
TextContent(r, columnIndex) ==
    IF columnIndex = AgeCol THEN age[r].innerHTML ELSE cellText[r]

\* A variant of Comparison that reads, for "number", the text of the cell and
\* not the data-timestamp attribute.
ComparisonByText(a, b, columnIndex, dataType) ==
    LET valueA == ParseFloat(TextContent(a, columnIndex))
        valueB == ParseFloat(TextContent(b, columnIndex))
        textA == ToLowerCase(Trim(TextContent(a, columnIndex)))
        textB == ToLowerCase(Trim(TextContent(b, columnIndex)))
    IN  IF dataType = "number"
        THEN IF Gt(valueA, valueB) THEN 1
             ELSE IF Lt(valueA, valueB) THEN -1 ELSE 0
        ELSE IF StrLt(textB, textA) THEN 1
             ELSE IF StrLt(textA, textB) THEN -1 ELSE 0

\* The comparison of two rows by the comparator, before the direction is applied.
Comparison(a, b, columnIndex, dataType) ==
    IF dataType = "number"
    THEN LET valueA == ParseFloat(age[a].dataTimestamp)
             valueB == ParseFloat(age[b].dataTimestamp)
         IN  IF Gt(valueA, valueB) THEN 1
             ELSE IF Lt(valueA, valueB) THEN -1 ELSE 0
    ELSE LET valueA == ToLowerCase(Trim(TextContent(a, columnIndex)))
             valueB == ToLowerCase(Trim(TextContent(b, columnIndex)))
         IN  IF StrLt(valueB, valueA) THEN 1
             ELSE IF StrLt(valueA, valueB) THEN -1 ELSE 0

\* A variant of Comparator that does not negate for the descending direction.
ComparatorIgnoresDirection(a, b, columnIndex, dataType, dir) ==
    Comparison(a, b, columnIndex, dataType)

\* The comparator handed to rows.sort.
Comparator(a, b, columnIndex, dataType, dir) ==
    IF dir = "asc" THEN Comparison(a, b, columnIndex, dataType)
    ELSE 0 - Comparison(a, b, columnIndex, dataType)

\* The comparator throws a TypeError when the row has no cell at columnIndex
\* (cells[columnIndex] is undefined) and, for "number", when the cell holds no
\* .age element (querySelector returns null).  rows.sort calls the comparator
\* when there are two rows or more.
ComparatorThrows(rows, columnIndex, dataType) ==
    /\ Len(rows) >= 2
    /\ \/ columnIndex \notin Columns
       \/ dataType = "number" /\ columnIndex # AgeCol

RECURSIVE OrderingsOf(_)
OrderingsOf(set) ==
    IF set = {} THEN {<<>>}
    ELSE UNION {{<<x>> \o p : p \in OrderingsOf(set \ {x})} : x \in set}

\* The orders an array of distinct rows can be put in.
Orderings(rows) == OrderingsOf(Range(rows))

\* What rows.sort(comparator) may leave in rows: the rows, in an order the
\* comparator agrees with.  Rows that compare equal come in any order (a stable
\* host sort keeps their order, which is one of these).
SortOutcomes(rows, columnIndex, dataType, dir) ==
    {p \in Orderings(rows) :
        \A i, j \in 1..Len(rows) :
            i < j => Comparator(p[i], p[j], columnIndex, dataType, dir) <= 0}

\* tbody.appendChild(row): the row leaves its place and becomes the last child.
AppendChild(body, row) == SelectSeq(body, LAMBDA x : x # row) \o <<row>>

\* rows.forEach(row => tbody.appendChild(row))
RECURSIVE AppendAll(_, _)
AppendAll(body, rows) ==
    IF rows = <<>> THEN body
    ELSE AppendAll(AppendChild(body, Head(rows)), Tail(rows))

\* A variant of IndicatorTexts that leaves the other indicators as they are.
IndicatorTextsKeepsOthers(activeColumn, dir) ==
    [index \in Columns |->
        IF index = activeColumn
        THEN IF dir = "asc" THEN StrAscending ELSE StrDescending
        ELSE indicators[index]]

\* The text of every .sort-indicator after updateSortIndicators(activeColumn).
IndicatorTexts(activeColumn, dir) ==
    [index \in Columns |->
        IF index = activeColumn
        THEN IF dir = "asc" THEN StrAscending ELSE StrDescending
        ELSE <<>>]

\* sortTable(columnIndex, dataType).  The sort state is set first; when the
\* comparator throws, the call ends there, the rows and indicators untouched.
sortTable(columnIndex, dataType) ==
    LET rows == tbody
        next == NextSortState(currentSortColumn, currentSortDirection, columnIndex)
        throws == ComparatorThrows(rows, columnIndex, dataType)
        same == /\ last.op = "sortTable"
                /\ last.columnIndex = columnIndex
                /\ last.dataType = dataType
    IN  /\ currentSortColumn' = next.column
        /\ currentSortDirection' = next.direction
        /\ IF throws
           THEN UNCHANGED <<tbody, indicators>>
           ELSE /\ \E sorted \in SortOutcomes(rows, columnIndex, dataType, next.direction) :
                      tbody' = AppendAll(tbody, sorted)
                /\ indicators' = IndicatorTexts(columnIndex, next.direction)
        /\ last' = [op |-> "sortTable", columnIndex |-> columnIndex,
                    dataType |-> dataType, returned |-> ~throws]
        /\ run' = LastThree(IF same THEN Append(run, tbody') ELSE <<tbody'>>)
        /\ UNCHANGED <<cellText, age>>

\* A variant of updateSortIndicators that remembers activeColumn as the sort
\* column.
updateSortIndicatorsSetsColumn(activeColumn) ==
    /\ indicators' = IndicatorTexts(activeColumn, currentSortDirection)
    /\ currentSortColumn' = activeColumn
    /\ last' = [op |-> "updateSortIndicators", activeColumn |-> activeColumn]
    /\ run' = <<>>
    /\ UNCHANGED <<cellText, age, tbody, currentSortDirection>>

\* updateSortIndicators(activeColumn), called on its own.
updateSortIndicators(activeColumn) ==
    /\ indicators' = IndicatorTexts(activeColumn, currentSortDirection)
    /\ last' = [op |-> "updateSortIndicators", activeColumn |-> activeColumn]
    /\ run' = <<>>
    /\ UNCHANGED <<cellText, age, tbody, currentSortColumn,
                   currentSortDirection>>

(* ------------------------ calls that only return ---------------------- *)
\* how_long_ago(timestamp), called on its own with the number the page's first
\* age element carries.
HowLongAgoCall(r, nowv) ==
    /\ r \in DOMAIN age \cap {1}
    /\ LET timestamp == ParseFloat(age[r].dataTimestamp)
       IN  last' = [op |-> "how_long_ago", timestamp |-> timestamp,
                    clock |-> nowv, ret |-> how_long_ago(timestamp, now(nowv))]
    /\ run' = <<>>
    /\ UNCHANGED <<cellText, age, tbody, currentSortColumn,
                   currentSortDirection, indicators>>

\* now(), called on its own.
NowCall(nowv) ==
    /\ last' = [op |-> "now", ret |-> now(nowv)]
    /\ run' = <<>>
    /\ UNCHANGED <<cellText, age, tbody, currentSortColumn,
                   currentSortDirection, indicators>>

(* ------------------------------ the pages ----------------------------- *)
\* A span.age element as the page is served: its text and its data-timestamp
\* attribute are the timestamp, it has the class "age" alone and no inline
\* display.
AgeElement(ts) ==
    [innerHTML |-> NumberToString(ts), dataTimestamp |-> NumberToString(ts),
     className |-> <<"age">>, display |-> ""]

\* The rows a repos table is filled from: a name and a timestamp.  The names
\* differ in case and surrounding white space ("a", " B", "c "); -1 is the "no
\* timestamp" value.
RowKinds ==
    << [name |-> <<97>>, ts |-> Epoch - 7199],
       [name |-> <<32, 66>>, ts |-> Epoch - 2591999],
       [name |-> <<99, 32>>, ts |-> -1] >>

\* Ages (whole seconds at the epoch) around every threshold of the formatter
\* and of the age bands.
AgeCases ==
    { -10, 0, 1, 2, 59, 119, 120, 3599, 7199, 7200, 86400, 172799, 172800,
      259199, 259200, 2591999, 2592000, 5183999, 5184000, 31536000,
      63071999, 63072000 }

Timestamps == {Epoch - a : a \in AgeCases} \cup {-1, -86400, 0}

InitState ==
    /\ currentSortColumn = -1
    /\ currentSortDirection = "asc"
    /\ indicators = [index \in Columns |-> <<>>]
    /\ last = [op |-> "load"]
    /\ run = <<>>

\* The index page: a repos table of up to MaxRows rows, each of one of the
\* kinds and several of a kind allowed.  What sortTable leaves does not depend
\* on the order the rows are served in, so they are served in the order of
\* their kinds: by name ascending, by timestamp descending.
Init ==
    /\ InitState
    /\ \E n \in 0..MaxRows :
         /\ tbody = [i \in 1..n |-> i]
         /\ \E kind \in [1..n -> DOMAIN RowKinds] :
              /\ \A i \in 1..n : i < n => kind[i] <= kind[i + 1]
              /\ cellText = [r \in 1..n |-> RowKinds[kind[r]].name]
              /\ age = [r \in 1..n |-> AgeElement(RowKinds[kind[r]].ts)]

\* A page of one row, whose timestamp is any of Timestamps.
InitAges ==
    /\ InitState
    /\ tbody = <<1>>
    /\ cellText = [r \in {1} |-> <<97>>]
    /\ \E ts \in Timestamps : age = [r \in {1} |-> AgeElement(ts)]

Next ==
    \/ \E nowv \in ClockReadings : NowCall(nowv)
    \/ \E r \in RowIds, nowv \in ClockReadings : HowLongAgoCall(r, nowv)
    \/ \E nowv \in ClockReadings : replace_timestamps(nowv)
    \/ \E id \in RowIds : toggle(id)
    \/ \E columnIndex \in ColumnArgs, dataType \in DataTypes :
           sortTable(columnIndex, dataType)
    \/ \E activeColumn \in ColumnArgs : updateSortIndicators(activeColumn)

Spec == Init /\ [][Next]_vars
SpecAges == InitAges /\ [][Next]_vars

(* ------------------------------- claims ------------------------------- *)
Bands == {"age-band0", "age-band1", "age-band2"}
Flip(dir) == IF dir = "asc" THEN "desc" ELSE "asc"
SortTableStep(c, t) ==
    /\ last'.op = "sortTable"
    /\ last'.columnIndex = c
    /\ last'.dataType = t
\* The data-timestamp of a row, a whole number of seconds.
TimestampOf(r) == ParseFloat(age[r].dataTimestamp).int
\* The rows stand in the order of their timestamps that the direction asks for.
OrderedByTimestamp(body, dir) ==
    \A i, j \in 1..Len(body) :
        i < j => IF dir = "asc"
                 THEN TimestampOf(body[i]) <= TimestampOf(body[j])
                 ELSE TimestampOf(body[i]) >= TimestampOf(body[j])
\* The body holds every row of the table once.
SameRows(body) ==
    /\ Range(body) = DOMAIN age
    /\ Len(body) = Cardinality(DOMAIN age)

\* C1: from the initial sort state (-1, asc), every sortTable(c, dataType) call
\* flips the direction and keeps the column when c is the current sort column,
\* and otherwise sets the column to c and the direction to asc, whatever the
\* direction and dataType were.
C1_DirectionPolicy ==
    /\ currentSortColumn = -1 /\ currentSortDirection = "asc"
    /\ [][\A c \in ColumnArgs, t \in DataTypes :
            SortTableStep(c, t) =>
                IF c = currentSortColumn
                THEN /\ currentSortColumn' = currentSortColumn
                     /\ currentSortDirection' = Flip(currentSortDirection)
                ELSE /\ currentSortColumn' = c
                     /\ currentSortDirection' = "asc"]_vars

\* C1's case: a second sortTable call on the age column has flipped the
\* direction to desc.
C1_Witness ==
    /\ last.op = "sortTable"
    /\ last.columnIndex = AgeCol
    /\ currentSortColumn = AgeCol
    /\ currentSortDirection = "desc"

\* C2: after sortTable(c, "number") returns on a table whose rows all carry a
\* numeric data-timestamp in column c, the body holds the same rows, each once,
\* in non-decreasing order of timestamp when the direction is asc and in
\* non-increasing order when it is desc.
C2_NumericSort ==
    ( /\ last.op = "sortTable"
      /\ last.dataType = "number"
      /\ last.columnIndex = AgeCol
      /\ last.returned
      /\ \A r \in DOMAIN age : ~ParseFloat(age[r].dataTimestamp).nan )
    => /\ SameRows(tbody)
       /\ OrderedByTimestamp(tbody, currentSortDirection)

\* C2's case: an ascending numeric sort has moved the row with the smaller
\* timestamp in front of the row that was served first.
C2_Witness ==
    /\ last.op = "sortTable"
    /\ last.dataType = "number"
    /\ last.columnIndex = AgeCol
    /\ last.returned
    /\ currentSortDirection = "asc"
    /\ Len(tbody) >= 2
    /\ tbody[1] > tbody[2]
    /\ TimestampOf(tbody[1]) < TimestampOf(tbody[2])

\* The comparator tells any two different rows apart in the column: no two
\* rows have the same key.
DistinctKeys(c, t) ==
    \A a, b \in DOMAIN age : a # b => Comparison(a, b, c, t) # 0

\* The row orders left by the latest consecutive sortTable calls: each is the
\* one before reversed, and the third is the first again.
ReversesEachCall ==
    /\ \A k \in 2..Len(run) : run[k] = Reverse(run[k - 1])
    /\ Len(run) = 3 => run[3] = run[1]

IndicatorsShow(c) ==
    /\ \A i \in Columns :
          indicators[i] = IF i # c THEN <<>>
                          ELSE IF currentSortDirection = "asc" THEN <<32, 9650>>
                          ELSE <<32, 9660>>
    /\ \A i \in Columns : indicators[i] # <<>> => i = currentSortColumn
    /\ Cardinality({i \in Columns : indicators[i] # <<>>}) <= 1

PolicyString(t, reading) ==
    LET seconds == reading.int - t
    IN  IF t < 0 THEN StrNever
        ELSE IF seconds \div 31536000 > 1
             THEN NumberToString(seconds \div 31536000) \o StrYearsAgo
        ELSE IF seconds \div 2592000 > 1
             THEN NumberToString(seconds \div 2592000) \o StrMonthsAgo
        ELSE IF seconds \div 86400 > 1
             THEN NumberToString(seconds \div 86400) \o StrDaysAgo
        ELSE IF seconds \div 3600 > 1
             THEN NumberToString(seconds \div 3600) \o StrHoursAgo
        ELSE IF seconds \div 60 > 1
             THEN NumberToString(seconds \div 60) \o StrMinutesAgo
        ELSE IF seconds > 1 THEN NumberToString(seconds) \o StrSecondsAgo
        ELSE StrAboutNow

\* C5: how_long_ago(t) returns the first matching row of the ordered policy
\* (never; years, months, days, hours, minutes, each only when more than one
\* whole unit; seconds when more than one; about now), and an age of exactly
\* 86400 seconds gives "24 hours ago".
C5_OrderedPolicy ==
    (last.op = "how_long_ago" /\ ~last.timestamp.nan) =>
        /\ last.ret = PolicyString(last.timestamp.int, last.clock)
        /\ (last.timestamp.int >= 0 /\ last.clock.int - last.timestamp.int = 86400)
               => last.ret = <<50, 52>> \o StrHoursAgo

\* C5's case: how_long_ago returned for an age of exactly one day.
C5_Witness ==
    /\ last.op = "how_long_ago"
    /\ last.timestamp.int >= 0
    /\ last.clock.int - last.timestamp.int = 86400
    /\ last.ret = <<50, 52>> \o StrHoursAgo

\* The class C6 has appended for a raw timestamp ts (whole seconds) read
\* against a clock reading whose whole part is sec: the age now - ts is below a
\* whole limit exactly when sec - ts is.
BandFor(ts, sec) ==
    IF ts <= 0 THEN <<>>
    ELSE IF sec - ts < 7200 THEN <<"age-band0">>
    ELSE IF sec - ts < 259200 THEN <<"age-band1">>
    ELSE IF sec - ts < 2592000 THEN <<"age-band2">>
    ELSE <<>>

\* C6: one replace_timestamps call appends to every age element with a numeric
\* raw timestamp ts the one class of its age band (age-band0 below 7200 s,
\* age-band1 below 259200 s, age-band2 below 2592000 s, none from there on, the
\* limits exclusive) when ts > 0, and no class when ts <= 0.
C6_AgeBands ==
    [][last'.op = "replace_timestamps" =>
        \A r \in DOMAIN age :
            LET ts == ToNumber(age[r].innerHTML)
            IN  ~ts.nan =>
                    age'[r].className =
                        age[r].className \o BandFor(ts.int, last'.clock.int)]_vars

\* C6's case: an element aged exactly 7200 s at the call has got age-band1.
C6_Witness ==
    /\ last.op = "replace_timestamps"
    /\ last.clock = Real(Epoch, 0)
    /\ \E r \in DOMAIN age :
          /\ TimestampOf(r) = Epoch - 7200
          /\ age[r].className = <<"age", "age-band1">>

\* C7: for an existing element, toggle is its own inverse on the displays ""
\* and "none" (two calls from "" pass through "none" and end at "", two calls
\* from "none" pass through "" and end at "none") and leaves every other
\* display, such as the "inline" replace_timestamps sets, unchanged.
C7_ToggleInverse ==
    last.op = "toggle" =>
        /\ Len(run) >= 2
        /\ run[1] = "" => run[2] = "none" /\ (Len(run) = 3 => run[3] = "")
        /\ run[1] = "none" => run[2] = "" /\ (Len(run) = 3 => run[3] = "none")
        /\ run[1] \notin {"", "none"} => \A k \in 1..Len(run) : run[k] = run[1]
        /\ age[last.id].display = run[Len(run)]

\* C7's case: two toggle calls in a row on an element that replace_timestamps
\* had set to "inline".
C7_Witness ==
    /\ last.op = "toggle"
    /\ run = <<"inline", "inline", "inline">>

\* C8: after any number of replace_timestamps calls, the class list of every
\* age element is its original class list followed by at most one age-band
\* class.
C8_BandsNotDuplicated ==
    \A r \in DOMAIN age :
        \/ age[r].className = <<"age">>
        \/ \E band \in Bands : age[r].className = <<"age", band>>

\* C8's case: a second replace_timestamps call has run (the text of an element
\* that got age-band2 reads "about now") and the element still has the one band.
C8_Witness ==
    /\ last.op = "replace_timestamps"
    /\ \E r \in DOMAIN age :
          /\ age[r].innerHTML = StrAboutNow
          /\ age[r].className = <<"age", "age-band2">>

\* C9: the sort state starts as (-1, asc); every step that is not a sortTable
\* call (toggle, replace_timestamps, how_long_ago, now, updateSortIndicators)
\* leaves currentSortColumn and currentSortDirection unchanged; and no step
\* other than a sortTable call with a negative column index takes the state
\* out of "currentSortColumn = -1 implies currentSortDirection = asc".
C9_SortStateFrame ==
    /\ currentSortColumn = -1 /\ currentSortDirection = "asc"
    /\ [][/\ last'.op # "sortTable" =>
                UNCHANGED <<currentSortColumn, currentSortDirection>>
          /\ ( /\ currentSortColumn = -1 => currentSortDirection = "asc"
               /\ ~(last'.op = "sortTable" /\ last'.columnIndex < 0) )
             => (currentSortColumn' = -1 => currentSortDirection' = "asc")]_vars

\* C9's case: replace_timestamps has run on a page sorted by the age column,
\* descending, and the sort state is still that.
C9_Witness ==
    /\ last.op = "replace_timestamps"
    /\ currentSortColumn = AgeCol
    /\ currentSortDirection = "desc"

\* The text of an age element has been rewritten by replace_timestamps.
Rendered(r) == age[r].display = "inline"

\* C10: replace_timestamps never changes a data-timestamp attribute nor the
\* row order, sortTable never changes the text, display or classes of the age
\* elements, and a sortTable(c, "number") call that returns leaves the rows in
\* the order of their data-timestamp attributes whether or not
\* replace_timestamps has run.
C10_SortIndependentOfRendering ==
    [][/\ last'.op = "replace_timestamps" =>
            /\ tbody' = tbody
            /\ \A r \in DOMAIN age :
                  age'[r].dataTimestamp = age[r].dataTimestamp
       /\ last'.op = "sortTable" => age' = age
       /\ ( /\ last'.op = "sortTable"
            /\ last'.dataType = "number"
            /\ last'.returned )
          => /\ SameRows(tbody')
             /\ OrderedByTimestamp(tbody', currentSortDirection')]_vars

\* C10's case: a numeric sort has reordered rows whose age elements
\* replace_timestamps had already rewritten.
C10_Witness ==
    /\ last.op = "sortTable"
    /\ last.dataType = "number"
    /\ last.returned
    /\ Len(tbody) >= 2
    /\ \A r \in DOMAIN age : Rendered(r) /\ age[r].innerHTML # age[r].dataTimestamp
    /\ tbody[1] > tbody[2]
    /\ TimestampOf(tbody[1]) < TimestampOf(tbody[2])

====
